---------------------------- MODULE Spec2Model ----------------------------
(***************************************************************************)
(* AskQL-AI chat client: the streaming readers of lib/api.ts, the          *)
(* transcript reducer of hooks/use-message-handler.ts (handleSendMessage,  *)
(* handleStopGeneration, loadConversation, resetChat) and the confirmation *)
(* round of components/main-layout.tsx (onConfirmAction).                  *)
(*                                                                         *)
(* Text is a sequence of tokens.  A token is either a literal fragment of  *)
(* a template string of the source, the newline NL, or a payload atom.     *)
(* Every newline of a template is its own NL token, so that trim() and     *)
(* the regular expressions of the source act on tokens exactly as they act *)
(* on characters.  Payload atoms stand for backend text that contains no   *)
(* whitespace and does not occur inside a literal fragment.                *)
(*                                                                         *)
(* JavaScript runs every callback to completion: an action of this module  *)
(* is one such run (a click handler, or the continuation of one await).    *)
(***************************************************************************)
EXTENDS Integers, Sequences, FiniteSets, TLC

(***************************************************************************)
(* Bounds of the model.                                                    *)
(***************************************************************************)
MaxStreams == 2
MaxEvents == 2
MaxLoads == 1
MaxCancels == 1
MaxNavs == 1
MaxReducerEvents == 3
MaxRoundEvents == 3
MaxLines == 2
MaxChunks == 3
MaxStopEvents == 3
MaxResumeEvents == 3

(***************************************************************************)
(* Sequence helpers: String.prototype.startsWith / endsWith / includes /   *)
(* lastIndexOf / trim on token sequences.                                  *)
(***************************************************************************)
NL == "NL"

StartsWith(s, p) ==
  /\ Len(p) <= Len(s)
  /\ SubSeq(s, 1, Len(p)) = p

EndsWith(s, p) ==
  /\ Len(p) <= Len(s)
  /\ SubSeq(s, Len(s) - Len(p) + 1, Len(s)) = p

MatchAt(s, p, i) ==
  /\ i >= 1
  /\ i + Len(p) - 1 <= Len(s)
  /\ SubSeq(s, i, i + Len(p) - 1) = p

Includes(s, p) == \E i \in 1..(Len(s) + 1) : MatchAt(s, p, i)

\* lastIndexOf, 1-based; 0 when there is no occurrence (-1 in the source).
LastIndexOf(s, p) ==
  LET hits == {i \in 1..(Len(s) + 1) : MatchAt(s, p, i)}
  IN IF hits = {} THEN 0 ELSE CHOOSE i \in hits : \A j \in hits : j <= i

IsSpace(t) == t = NL

RECURSIVE TrimLeft(_)
TrimLeft(s) ==
  IF s # <<>> /\ IsSpace(Head(s)) THEN TrimLeft(Tail(s)) ELSE s

RECURSIVE TrimRight(_)
TrimRight(s) ==
  IF s # <<>> /\ IsSpace(s[Len(s)]) THEN TrimRight(SubSeq(s, 1, Len(s) - 1)) ELSE s

Trim(s) == TrimLeft(TrimRight(s))

(***************************************************************************)
(* Literal fragments.  The emoji of the two source files are stored as     *)
(* different byte sequences (use-message-handler.ts and main-layout.tsx    *)
(* were saved through different encodings), so a literal of one file that  *)
(* carries an emoji is a different string from its twin in the other: the  *)
(* Mh* tokens are the strings of use-message-handler.ts, the Ml* tokens    *)
(* those of main-layout.tsx.                                               *)
(***************************************************************************)
MhWarning == "**[mh-warn] This operation will modify your data. Please confirm:**"
MlWarning == "**[ml-warn] This operation will modify your data. Please confirm:**"
MhConclusion == "**[mh-bulb] Conclusion:**"
MhSummary == "**[mh-bulb] Summary:**"
MlSummary == "**[ml-bulb] Summary:**"
MhNextStep == "[mh-thought] **Next Step:** "
MlNextStep == "[ml-thought] **Next Step:** "
MhQueryResult == "**[mh-clip] Query Result:** ("
MlQueryResult == "**[ml-clip] Query Result:** ("
MhResult == "**[mh-check] Result:** "
MlResult == "**[ml-check] Result:** Successfully "
MlError == "**[ml-cross] Error:** "
MhVisualization == "**[mh-chart] Visualization:**"
MhAnalyzing == "> [mh-brain] "
MhCheckingGraph == "> [mh-chart] "
ExecutedSqlQuery == "**Executed SQL Query:**"
ExecutedSql == "**Executed SQL:**"
SqlToExecute == "**SQL to Execute:**"
DirectiveOpen == "<confirmation"
DirectiveClose == "/>"
Model == "gemini-2.5-flash"
\* The code fences of the templates (three backquotes and a language tag).
Fence == "[fence]"
FenceSql == "[fence]sql"
FenceJson == "[fence]json"
FenceChart == "[fence]chart"
FenceTable == "[fence]table"

\* Payload atoms of the backend's text payloads.
Atoms == {"p", "q", "@", "m"}

\* btoa / atob, atom by atom (btoa is injective; the encoded text holds only
\* base64 characters, so it contains neither a quote nor '>').
B64(t) ==
  CASE t = "p" -> "cA=="
    [] t = "q" -> "cQ=="
    [] t = "@" -> "QA=="
    [] t = "m" -> "bQ=="

UnB64(t) ==
  CASE t = "cA==" -> "p"
    [] t = "cQ==" -> "q"
    [] t = "QA==" -> "@"
    [] t = "bQ==" -> "m"

B64Tokens == {B64(t) : t \in Atoms}

Btoa(s) == [i \in 1..Len(s) |-> B64(s[i])]
Atob(s) == [i \in 1..Len(s) |-> UnB64(s[i])]

\* A number inside a template string; a missing field prints as "undefined".
Num(n) == IF n = -1 THEN "undefined" ELSE ToString(n)

\* JSON.stringify(result.data, null, 2): data is absent, [] or one row.
DataJson(d) ==
  CASE d = "none" -> "undefined"
    [] d = "empty" -> "[]"
    [] d = "rows" -> "[{x:1}]"

\* JSON.stringify(result.data || [], null, 2)
DataJsonOrEmpty(d) == IF d = "rows" THEN "[{x:1}]" ELSE "[]"

\* row${n !== 1 ? "s" : ""} returned)
RowsReturned(n) == IF n # 1 THEN " rows returned)" ELSE " row returned)"

\* operation.toLowerCase(), then a trailing 'e' replaced by 'ed', else 'ed'
\* appended.
OperationText(op) ==
  CASE op = "DELETE" -> "deleted"
    [] op = "UPDATE" -> "updated"
    [] op = "INSERT" -> "inserted"
    [] OTHER -> "ed"

\* String.prototype.length of one token (UTF-16 code units of the literal as
\* it stands in the source).
TokLen(t) ==
  CASE t = NL -> 1
    [] t = MhWarning -> 64
    [] t = MlWarning -> 64
    [] t = MhConclusion -> 20
    [] t \in {MhSummary, MlSummary} -> 17
    [] t \in {MhNextStep, MlNextStep} -> 20
    [] t \in {MhQueryResult, MlQueryResult} -> 24
    [] t = MhResult -> 16
    [] t = MlResult -> 29
    [] t = MlError -> 14
    [] t = MhVisualization -> 23
    [] t \in {MhAnalyzing, MhCheckingGraph} -> 7
    [] t = ExecutedSqlQuery -> 23
    [] t = ExecutedSql -> 17
    [] t = SqlToExecute -> 19
    [] t = DirectiveOpen -> 13
    [] t = DirectiveClose -> 3
    [] t = Model -> 16
    [] t \in B64Tokens -> 4
    [] t = "operation=" -> 12
    [] t = "sql=" -> 7
    [] t = "message=" -> 11
    [] t = "model=" -> 9
    [] t \in {"DELETE", "UPDATE", "INSERT"} -> 6
    [] t \in {"deleted", "updated"} -> 7
    [] t = "inserted" -> 8
    [] t \in {Fence, "---"} -> 3
    [] t = "### " -> 4
    [] t = FenceSql -> 6
    [] t = FenceJson -> 7
    [] t \in {FenceChart, FenceTable} -> 8
    [] t = "<details open>" -> 14
    [] t = "<summary>Results</summary>" -> 26
    [] t = "</details>" -> 10
    [] t = " rows returned)" -> 15
    [] t = " row returned)" -> 14
    [] t = " row(s) affected" -> 16
    [] t = " record(s)." -> 11
    [] t = "undefined" -> 9
    [] t = "[{x:1}]" -> 20
    [] t = "[]" -> 2
    [] t = "{chart}" -> 20
    [] t = "Error: " -> 7
    [] t = ". Please make sure the backend server is running." -> 50
    [] t = "Failed to fetch" -> 15
    [] t = "Unexpected token" -> 16
    [] t = "Operation failed" -> 16
    [] OTHER -> 1

RECURSIVE Size(_)
Size(s) == IF s = <<>> THEN 0 ELSE TokLen(Head(s)) + Size(Tail(s))

(***************************************************************************)
(* use-message-handler.ts: the fragments appended to accumulatedContent    *)
(* and buildContent of the two primary streams.                            *)
(***************************************************************************)
HasAt(c) == \E i \in 1..Len(c) : c[i] = "@"

AskSqlQueryBlock(c) ==
  <<NL, NL, ExecutedSqlQuery, NL, FenceSql, NL>> \o c \o <<NL, Fence, NL>>

AgentSqlQueryBlock(c) ==
  <<NL, NL, ExecutedSql, NL, FenceSql, NL>> \o c \o <<NL, Fence, NL>>

StepBlock(c) == <<NL, NL, "---", NL, NL, "### ">> \o c \o <<NL>>

ReasoningBlock(c) == <<NL, NL, "---", NL, NL, MhNextStep>> \o c \o <<NL, NL>>

ChartBlock(c) ==
  <<NL, NL, MhVisualization, NL, FenceChart, NL>> \o c \o <<NL, Fence, NL>>

RowsResultBlock(r) ==
  <<NL, MhQueryResult, Num(r.row_count), RowsReturned(r.row_count), NL, NL,
    "<details open>", NL, "<summary>Results</summary>", NL, NL,
    FenceJson, NL, DataJson(r.data), NL, Fence, NL, "</details>", NL>>

MutationResultBlock(r) ==
  <<NL, MhResult, Num(r.row_count), " row(s) affected">>

\* sql_result of the ask stream: every successful result is a row block.
AskSqlResultBlock(r) == IF r.success THEN RowsResultBlock(r) ELSE <<>>

\* sql_result of the agent stream: rows when data is a non-empty array, the
\* mutation line otherwise.
AgentSqlResultBlock(r) ==
  IF r.success
    THEN IF r.data = "rows" THEN RowsResultBlock(r) ELSE MutationResultBlock(r)
    ELSE <<>>

BuildContentAsk(acc, fa, general) ==
  IF fa = <<>> THEN acc
  ELSE IF general \/ ~Includes(acc, <<ExecutedSqlQuery>>) \/ ~HasAt(acc)
    THEN IF Trim(acc) # <<>> THEN acc \o <<NL, NL>> \o fa ELSE fa
    ELSE acc \o <<NL, NL, "---", NL, NL, MhConclusion, NL>> \o fa

BuildContentAgent(acc, fa, general) ==
  IF fa = <<>> THEN acc
  ELSE IF general \/ ~HasAt(acc)
    THEN IF Trim(acc) # <<>> THEN acc \o <<NL, NL>> \o fa ELSE fa
    ELSE acc \o <<NL, NL, "---", NL, NL, MhSummary, NL>> \o fa

BuildContent(kind, acc, fa, general) ==
  IF kind = "ask" THEN BuildContentAsk(acc, fa, general)
  ELSE BuildContentAgent(acc, fa, general)

\* The confirmation tag: operation and model verbatim, sql and message
\* through btoa.
Directive(o) ==
  <<DirectiveOpen, "operation=", o.operation, "sql=">> \o Btoa(o.sql)
    \o <<"message=">> \o Btoa(o.message) \o <<"model=", Model, DirectiveClose>>

\* The description of the operation: explanation and SQL.
Description(o) ==
  o.message \o <<NL, NL, SqlToExecute, NL, FenceSql, NL>> \o o.sql \o <<NL, Fence>>

ConfirmationContent(o) ==
  Description(o) \o <<NL, NL, MhWarning, NL, NL>> \o Directive(o)

(***************************************************************************)
(* The two replace() calls and trim() that take the confirmation out of a  *)
(* message (the cancelled event of the agent stream, and both paths of     *)
(* onConfirmAction).                                                       *)
(***************************************************************************)
\* Tokens that contain the character '>'.
HasGt(t) ==
  t \in {DirectiveClose, "<details open>", "<summary>Results</summary>",
         "</details>", MhAnalyzing, MhCheckingGraph}

\* /\n\n<confirmation[^>]+\/>/ anchored at i: the index of the closing token,
\* 0 when the expression does not match there.
DirectiveEnd(c, i) ==
  IF ~MatchAt(c, <<NL, NL, DirectiveOpen>>, i) THEN 0
  ELSE LET gts == {j \in (i + 3)..Len(c) : HasGt(c[j])}
       IN IF gts = {} THEN 0
          ELSE LET j == CHOOSE k \in gts : \A l \in gts : k <= l
               IN IF c[j] = DirectiveClose /\ j > i + 3 THEN j ELSE 0

RECURSIVE RemoveDirectivesFrom(_, _)
RemoveDirectivesFrom(c, i) ==
  IF i > Len(c) THEN <<>>
  ELSE IF DirectiveEnd(c, i) # 0
    THEN RemoveDirectivesFrom(c, DirectiveEnd(c, i) + 1)
    ELSE <<c[i]>> \o RemoveDirectivesFrom(c, i + 1)

RemoveDirectives(c) == RemoveDirectivesFrom(c, 1)

\* /\*\*<warning>\*\*\n*/g
RECURSIVE RemoveWarning(_, _)
RemoveWarning(c, w) ==
  IF c = <<>> THEN <<>>
  ELSE IF Head(c) = w THEN RemoveWarning(TrimLeft(Tail(c)), w)
  ELSE <<Head(c)>> \o RemoveWarning(Tail(c), w)

\* A strip that forgets the first replace() and leaves the tag in place.
StripConfirmationKeepsTag(c, w) == Trim(RemoveWarning(c, w))

StripConfirmation(c, w) == Trim(RemoveWarning(RemoveDirectives(c), w))

(***************************************************************************)
(* MarkdownRenderer: the confirmation regions of a message and the         *)
(* arguments its Execute / Cancel buttons pass to onConfirmAction.         *)
(***************************************************************************)
FirstFrom(c, i, t) ==
  LET hits == {j \in i..Len(c) : c[j] = t}
  IN IF hits = {} THEN 0 ELSE CHOOSE j \in hits : \A k \in hits : j <= k

\* confirmationRegex anchored at i; every attribute is "[^"]+", so an empty
\* attribute does not match.
DirectiveAt(c, i) ==
  LET m == FirstFrom(c, i + 4, "message=")
      d == IF m = 0 THEN 0 ELSE FirstFrom(c, m + 1, "model=")
  IN /\ MatchAt(c, <<DirectiveOpen, "operation=">>, i)
     /\ i + 3 <= Len(c)
     /\ c[i + 3] = "sql="
     /\ m > i + 4
     /\ d > m + 1
     /\ \A j \in ((i + 4)..(m - 1)) \cup ((m + 1)..(d - 1)) : c[j] \in B64Tokens
     /\ MatchAt(c, <<"model=", Model, DirectiveClose>>, d)

DirectiveArgs(c, i) ==
  LET m == FirstFrom(c, i + 4, "message=")
      d == FirstFrom(c, m + 1, "model=")
  IN [operation |-> c[i + 2],
      sql |-> Atob(SubSeq(c, i + 4, m - 1)),
      message |-> Atob(SubSeq(c, m + 1, d - 1))]

HasDirective(c) == \E i \in 1..Len(c) : c[i] = DirectiveOpen

(***************************************************************************)
(* main-layout.tsx: the fragments onConfirmAction appends to the last      *)
(* assistant message.                                                      *)
(***************************************************************************)
\* result.row_count || 0
RowCountOrZero(r) == IF r.row_count = -1 THEN 0 ELSE r.row_count

ConfirmResultText(op, r) ==
  <<MlResult, OperationText(op), " ", Num(RowCountOrZero(r)), " record(s).">>

ConfirmErrorText(r) == <<MlError, "Operation failed">>

ConfirmQueryResult(r) ==
  <<NL, NL, MlQueryResult, Num(RowCountOrZero(r)), RowsReturned(RowCountOrZero(r)),
    NL, NL, FenceTable, NL, DataJsonOrEmpty(r.data), NL, Fence>>

ConfirmReasoningText(c) == <<MlNextStep>> \o c

ConfirmReasoningBlock(c) == <<NL, NL, "---", NL, NL, MlNextStep>> \o c \o <<NL, NL>>

ConfirmSummaryMark == <<NL, NL, MlSummary>>

ConfirmSummaryHeader == <<NL, NL, MlSummary, NL>>

ConfirmSqlQueryBlock(c) ==
  <<NL, NL, ExecutedSqlQuery, NL, FenceSql, NL>> \o c \o <<NL, Fence>>

ConfirmChartBlock(c) == <<NL, NL, FenceChart, NL>> \o c \o <<NL, Fence>>

\* typeof result.success === 'boolean' && typeof result.row_count === 'number'
\* && !result.data, with a non-empty operation: the result of the confirmed
\* operation itself.  An empty array is truthy, so data = [] is not this case.
IsConfirmationResult(op, r) == op # "" /\ r.row_count # -1 /\ r.data = "none"

(***************************************************************************)
(* State.                                                                  *)
(***************************************************************************)
VARIABLES
  messages,            \* useMessageHandler: messages
  conversationId,      \* useMessageHandler: conversationId (0 is null)
  isLoading,           \* useMessageHandler: isLoading
  isLoadingChat,       \* useMessageHandler: isLoadingChat
  currentStatus,       \* useMessageHandler: currentStatus
  pendingOperation,    \* useMessageHandler: pendingOperation
  abortControllerRef,  \* useMessageHandler: abortControllerRef.current (0 is null)
  isStreaming,         \* MainLayout: isStreaming
  localStatus,         \* MainLayout: localStatus
  streams,             \* the calls of handleSendMessage / onConfirmAction(execute)
  nStreams,            \* how many of them were started
  loads,               \* getConversation requests in flight (chat ids)
  cancels,             \* cancel requests of onConfirmAction in flight
  navs,                \* history: calls of loadConversation and resetChat
  requests,            \* history: confirm-execute and cancel requests sent
  stopped,             \* history: streams in flight when stop aborted a controller
  evCount,             \* history: events delivered so far
  lastAct,             \* history: the step taken last
  wire,                \* decoder: the chunks still to be read
  delivered,           \* decoder: the events handed to the callback
  reader               \* decoder: state of the read loop

protoVars ==
  <<messages, conversationId, isLoading, isLoadingChat, currentStatus,
    pendingOperation, abortControllerRef, isStreaming, localStatus, streams,
    nStreams, loads, cancels, navs, requests, stopped, evCount, lastAct>>

decoderVars == <<wire, delivered, reader>>

vars == <<protoVars, decoderVars>>

StreamIds == 1..MaxStreams

NoConversation == 0

NoOperation == [operation |-> "", sql |-> <<>>, explanation |-> <<>>, model |-> ""]

NoResult == [success |-> FALSE, row_count |-> -1, data |-> "none"]

NoPayloadOp == [operation |-> "", sql |-> <<>>, message |-> <<>>]

Event(type, text, result, op, cid) ==
  [type |-> type, text |-> text, result |-> result, op |-> op, conversation_id |-> cid]

TextEvent(type, text) == Event(type, text, NoResult, NoPayloadOp, 0)

NoEvent == TextEvent("", <<>>)

NoStream ==
  [kind |-> "none", status |-> "unused", aiResponse |-> <<>>,
   accumulatedContent |-> <<>>, finalAnswer |-> <<>>, streamingMessageId |-> 0,
   conversationId |-> 0, general |-> FALSE, operation |-> "", seen |-> {}]

Msg(id, role, content) == [id |-> id, role |-> role, content |-> content]

\* Date.now() of the call that started stream s, as a string.
UserMessageId(s) == 10 * s
StreamingMessageId(s) == 10 * s + 1
ErrorMessageId(s) == 10 * s + 2

Act(name, s, e) == [name |-> name, stream |-> s, ev |-> e]

Last(msgs) == msgs[Len(msgs)]

LastIsStreaming(msgs, id) == Len(msgs) > 0 /\ Last(msgs).id = id

LastIsAssistant(msgs) == Len(msgs) > 0 /\ Last(msgs).role = "assistant"

SetLastContent(msgs, c) == [msgs EXCEPT ![Len(msgs)].content = c]

\* const lastMsg = updated[updated.length - 1];
\* if (lastMsg && lastMsg.id === streamingMessageId) lastMsg.content = c
UpdateStreaming(msgs, id, c) ==
  IF LastIsStreaming(msgs, id) THEN SetLastContent(msgs, c) ELSE msgs

ProtoInit ==
  /\ messages = <<>>
  /\ conversationId = NoConversation
  /\ isLoading = FALSE
  /\ isLoadingChat = FALSE
  /\ currentStatus = <<>>
  /\ pendingOperation = NoOperation
  /\ abortControllerRef = 0
  /\ isStreaming = FALSE
  /\ localStatus = <<>>
  /\ streams = [s \in StreamIds |-> NoStream]
  /\ nStreams = 0
  /\ loads = <<>>
  /\ cancels = 0
  /\ navs = 0
  /\ requests = {}
  /\ stopped = {}
  /\ evCount = 0
  /\ lastAct = Act("init", 0, NoEvent)

DecoderIdle ==
  /\ wire = <<>>
  /\ delivered = <<>>
  /\ reader = [kind |-> "none", state |-> "idle", chunks |-> <<>>]

Init == ProtoInit /\ DecoderIdle

(***************************************************************************)
(* handleSendMessage up to its first await: the user message, the loading  *)
(* state, a fresh AbortController and the closure of the stream callback.  *)
(* tables: "none" (no dataset mentioned), "table", or "general".  Ask mode *)
(* without tables takes the non-streaming branch (kind "asksync").         *)
(***************************************************************************)
StreamKind(mode, tables) ==
  IF mode = "ask" /\ tables = "none" THEN "asksync" ELSE mode

HandleSendMessage(mode, tables) ==
  /\ nStreams < MaxStreams
  /\ LET s == nStreams + 1
     IN /\ nStreams' = s
        /\ messages' = Append(messages, Msg(UserMessageId(s), "user", <<"q">>))
        /\ isLoading' = TRUE
        /\ currentStatus' = <<"AI is planning...">>
        /\ abortControllerRef' = s
        /\ streams' = [streams EXCEPT ![s] =
             [NoStream EXCEPT !.kind = StreamKind(mode, tables),
                              !.status = "open",
                              !.streamingMessageId = StreamingMessageId(s),
                              !.conversationId = conversationId,
                              !.general = (tables = "general")]]
        /\ lastAct' = Act("send", s, NoEvent)
  /\ UNCHANGED <<conversationId, isLoadingChat, navs, pendingOperation, isStreaming,
                 localStatus, loads, cancels, requests, stopped, evCount>>

(***************************************************************************)
(* The onChunk callback of the ask and agent streams.                      *)
(***************************************************************************)
AppendTypes ==
  {"sql_query", "step_indicator", "brief_reasoning", "sql_result", "chart_config"}

\* accumulatedContent after the event
Accumulate(kind, acc, e) ==
  CASE e.type = "sql_query" ->
         acc \o (IF kind = "ask" THEN AskSqlQueryBlock(e.text)
                 ELSE AgentSqlQueryBlock(e.text))
    [] e.type = "step_indicator" -> acc \o StepBlock(e.text)
    [] e.type = "brief_reasoning" -> acc \o ReasoningBlock(e.text)
    [] e.type = "sql_result" ->
         acc \o (IF kind = "ask" THEN AskSqlResultBlock(e.result)
                 ELSE AgentSqlResultBlock(e.result))
    [] e.type = "chart_config" -> acc \o ChartBlock(e.text)
    [] OTHER -> acc

\* finalAnswer after the event
Answer(fa, e) ==
  CASE e.type = "final_answer_chunk" -> fa \o e.text
    [] e.type \in {"final_answer_complete", "final_answer"} -> e.text
    [] OTHER -> fa

\* Event types whose branch sets the streaming message to buildContent().
RebuildTypes(kind) ==
  AppendTypes \cup {"final_answer_chunk", "final_answer_complete"}
    \cup (IF kind = "ask" THEN {"graph_decision"} ELSE {})

\* A callback that writes the text of a loading event into the transcript.
TranscriptShowsLoading(msgs, st, e) ==
  IF e.type = "loading"
    THEN Append(msgs, Msg(st.streamingMessageId, "assistant", e.text))
    ELSE msgs

\* messages after the event
Transcript(msgs, st, e) ==
  LET kind == st.kind
      id == st.streamingMessageId
      built == BuildContent(kind, Accumulate(kind, st.accumulatedContent, e),
                            Answer(st.finalAnswer, e), st.general)
  IN CASE e.type = "ai_response" -> Append(msgs, Msg(id, "assistant", built))
       [] e.type \in RebuildTypes(kind) -> UpdateStreaming(msgs, id, built)
       [] e.type = "final_answer" ->
            IF LastIsStreaming(msgs, id) THEN SetLastContent(msgs, built)
            ELSE Append(msgs, Msg(id, "assistant", built))
       [] kind = "ask" /\ e.type = "analyzing" ->
            UpdateStreaming(msgs, id, built \o <<NL, NL, MhAnalyzing>> \o e.text)
       [] kind = "ask" /\ e.type = "checking_graph" ->
            UpdateStreaming(msgs, id, built \o <<NL, NL, MhCheckingGraph>> \o e.text)
       [] kind = "agent" /\ e.type = "confirmation_required" ->
            IF LastIsStreaming(msgs, id)
              THEN SetLastContent(msgs, built \o <<NL, NL>> \o ConfirmationContent(e.op))
              ELSE Append(msgs, Msg(id, "assistant", ConfirmationContent(e.op)))
       [] kind = "agent" /\ e.type = "cancelled" ->
            IF LastIsAssistant(msgs)
              THEN SetLastContent(msgs, StripConfirmation(Last(msgs).content, MhWarning))
              ELSE msgs
       [] OTHER -> msgs

\* currentStatus after the event
Status(kind, status, e) ==
  CASE e.type = "loading" ->
         IF kind = "ask" /\ e.text = <<>> THEN <<"Processing...">> ELSE e.text
    [] e.type = "chart_config" -> <<"AI is generating visualization...">>
    [] e.type = "final_answer_chunk" -> <<"AI is generating conclusion...">>
    [] e.type = "done" -> <<>>
    [] OTHER -> status

\* if (!conversationId) setConversationId(data.conversation_id), with the
\* conversationId of the closure
AdoptConversation(closureId, current, e) ==
  IF e.type = "done" /\ closureId = NoConversation THEN e.conversation_id ELSE current

CapturedOperation(o) ==
  [operation |-> o.operation, sql |-> o.sql, explanation |-> o.message, model |-> Model]

PrimaryEvent(s, e) ==
  LET st == streams[s]
  IN /\ streams' = [streams EXCEPT
          ![s].aiResponse = IF e.type = "ai_response" THEN e.text ELSE @,
          ![s].accumulatedContent = Accumulate(st.kind, @, e),
          ![s].finalAnswer = Answer(@, e),
          ![s].seen = @ \cup {e}]
     /\ messages' = Transcript(messages, st, e)
     /\ currentStatus' = Status(st.kind, currentStatus, e)
     /\ conversationId' = AdoptConversation(st.conversationId, conversationId, e)
     /\ pendingOperation' =
          IF st.kind = "agent" /\ e.type = "confirmation_required"
            THEN CapturedOperation(e.op) ELSE pendingOperation
     /\ UNCHANGED <<isLoading, isLoadingChat, navs, abortControllerRef, isStreaming,
                    localStatus, nStreams, loads, cancels, requests, stopped>>

\* finally { setIsLoading(false); abortControllerRef.current = null; }
Finally ==
  /\ isLoading' = FALSE
  /\ abortControllerRef' = 0

\* catch of handleSendMessage for an error that is not an AbortError
PrimaryThrow(s, msg) ==
  /\ streams' = [streams EXCEPT ![s].status = "failed"]
  /\ messages' = Append(messages,
       Msg(ErrorMessageId(s), "assistant",
           <<"Error: ", msg, ". Please make sure the backend server is running.">>))
  /\ Finally
  /\ UNCHANGED <<conversationId, isLoadingChat, navs, currentStatus, pendingOperation,
                 isStreaming, localStatus, nStreams, loads, cancels, requests,
                 stopped>>

(***************************************************************************)
(* onConfirmAction.  The buttons of a rendered confirmation tag call it    *)
(* with the decoded attributes of the tag; every mutation goes to the last *)
(* message of the transcript when that is an assistant message.            *)
(***************************************************************************)
\* A handler that clears the pending operation on the cancel path only.
ResolvePendingOnCancelOnly(action, pending) ==
  IF action = "cancel" THEN NoOperation ELSE pending

\* setPendingOperation(null) at the head of onConfirmAction
ResolvePending(action, pending) == NoOperation

\* The (action, operation) pairs offered by the buttons of message i.
Buttons(msgs, i) ==
  IF msgs[i].role # "assistant" THEN {}
  ELSE {DirectiveArgs(msgs[i].content, k) :
          k \in {j \in 1..Len(msgs[i].content) : DirectiveAt(msgs[i].content, j)}}

StripLastAssistant(msgs) ==
  IF LastIsAssistant(msgs)
    THEN SetLastContent(msgs, StripConfirmation(Last(msgs).content, MlWarning))
    ELSE msgs

\* Cancel: the pending operation is cleared and "Cancel" is posted to the
\* agent endpoint; the transcript changes only when the response arrives.
OnConfirmCancel(o) ==
  /\ \E i \in 1..Len(messages) : o \in Buttons(messages, i)
  /\ cancels < MaxCancels
  /\ pendingOperation' = ResolvePending("cancel", pendingOperation)
  /\ cancels' = cancels + 1
  /\ requests' = requests \cup {[endpoint |-> "agent", query |-> "Cancel", op |-> NoPayloadOp]}
  /\ lastAct' = Act("cancel", 0, NoEvent)
  /\ UNCHANGED <<messages, conversationId, isLoading, isLoadingChat, navs, currentStatus,
                 abortControllerRef, isStreaming, localStatus, streams, nStreams,
                 loads, stopped, evCount>>

\* if (response.ok) the tag and the warning are removed; a failed request is
\* only logged.
CancelResponse(ok) ==
  /\ cancels > 0
  /\ cancels' = cancels - 1
  /\ messages' = IF ok THEN StripLastAssistant(messages) ELSE messages
  /\ lastAct' = Act(IF ok THEN "cancelled" ELSE "cancel failed", 0, NoEvent)
  /\ UNCHANGED <<conversationId, isLoading, isLoadingChat, navs, currentStatus,
                 pendingOperation, abortControllerRef, isStreaming, localStatus,
                 streams, nStreams, loads, requests, stopped, evCount>>

\* Execute, up to the await of confirmAgentOperationStream.
OnConfirmExecute(o) ==
  /\ \E i \in 1..Len(messages) : o \in Buttons(messages, i)
  /\ nStreams < MaxStreams
  /\ LET s == nStreams + 1
     IN /\ nStreams' = s
        /\ streams' = [streams EXCEPT ![s] =
             [NoStream EXCEPT !.kind = "confirm",
                              !.status = "open",
                              !.conversationId = conversationId,
                              !.operation = o.operation]]
        /\ lastAct' = Act("execute", s, NoEvent)
  /\ pendingOperation' = ResolvePending("execute", pendingOperation)
  /\ isStreaming' = TRUE
  /\ localStatus' = <<"Executing operation...">>
  /\ messages' = StripLastAssistant(messages)
  /\ requests' = requests \cup {[endpoint |-> "agent/confirm", query |-> "", op |-> o]}
  /\ UNCHANGED <<conversationId, isLoading, isLoadingChat, navs, currentStatus,
                 abortControllerRef, loads, cancels, stopped, evCount>>

\* lastMsg.content after an event of the confirm-execute stream
ConfirmContent(c, op, e) ==
  LET r == e.result
  IN CASE e.type = "sql_result" /\ IsConfirmationResult(op, r) /\ r.success ->
            IF Includes(c, ConfirmResultText(op, r)) THEN c
            ELSE c \o <<NL, NL>> \o ConfirmResultText(op, r)
       [] e.type = "sql_result" /\ IsConfirmationResult(op, r) /\ ~r.success ->
            IF Includes(c, ConfirmErrorText(r)) THEN c
            ELSE c \o <<NL, NL>> \o ConfirmErrorText(r)
       [] e.type = "sql_result" /\ ~IsConfirmationResult(op, r) ->
            IF r.success /\ ~Includes(c, ConfirmQueryResult(r))
              THEN c \o ConfirmQueryResult(r) ELSE c
       [] e.type = "brief_reasoning" ->
            IF Includes(c, ConfirmReasoningText(e.text)) THEN c
            ELSE c \o ConfirmReasoningBlock(e.text)
       [] e.type = "final_answer_chunk" ->
            LET c1 == IF Includes(c, ConfirmSummaryMark) THEN c
                      ELSE c \o ConfirmSummaryHeader
                at == LastIndexOf(c1, ConfirmSummaryHeader)
                summary == SubSeq(c1, at + Len(ConfirmSummaryHeader), Len(c1))
            IN IF at # 0 /\ EndsWith(summary, e.text) THEN c1 ELSE c1 \o e.text
       [] e.type = "sql_query" ->
            IF Includes(c, e.text) THEN c ELSE c \o ConfirmSqlQueryBlock(e.text)
       [] e.type = "chart_config" ->
            IF Includes(c, ConfirmChartBlock(e.text)) THEN c
            ELSE c \o ConfirmChartBlock(e.text)
       [] OTHER -> c

ConfirmTranscript(msgs, op, e) ==
  IF LastIsAssistant(msgs)
    THEN SetLastContent(msgs, ConfirmContent(Last(msgs).content, op, e))
    ELSE msgs

ConfirmStatus(status, op, e) ==
  CASE e.type = "sql_result" /\ IsConfirmationResult(op, e.result) ->
         <<"Operation completed, analyzing next steps...">>
    [] e.type = "loading" -> e.text
    [] e.type \in {"confirmation_required", "done"} -> <<>>
    [] OTHER -> status

\* A further confirmation_required with a known conversation calls
\* loadConversation, which empties the transcript before its request.
ReloadsOn(st, e) == e.type = "confirmation_required" /\ st.conversationId # NoConversation

ConfirmEvent(s, e) ==
  LET st == streams[s]
  IN /\ ReloadsOn(st, e) => Len(loads) < MaxLoads
     /\ streams' = [streams EXCEPT ![s].seen = @ \cup {e}]
     /\ messages' = IF ReloadsOn(st, e) THEN <<>>
                    ELSE ConfirmTranscript(messages, st.operation, e)
     /\ loads' = IF ReloadsOn(st, e) THEN Append(loads, st.conversationId) ELSE loads
     /\ isLoadingChat' = IF ReloadsOn(st, e) THEN TRUE ELSE isLoadingChat
     /\ localStatus' = ConfirmStatus(localStatus, st.operation, e)
     /\ isStreaming' = IF e.type \in {"confirmation_required", "done"} THEN FALSE
                       ELSE isStreaming
     /\ pendingOperation' = IF e.type = "confirmation_required"
                              THEN CapturedOperation(e.op) ELSE pendingOperation
     /\ conversationId' = AdoptConversation(st.conversationId, conversationId, e)
     /\ UNCHANGED <<isLoading, currentStatus, abortControllerRef, nStreams, cancels,
                    navs, requests, stopped>>

\* catch of onConfirmAction: the error goes into the last assistant message;
\* isStreaming and localStatus are left as they are.
ConfirmThrow(s, msg) ==
  /\ streams' = [streams EXCEPT ![s].status = "failed"]
  /\ messages' = IF LastIsAssistant(messages)
                   THEN SetLastContent(messages,
                          Last(messages).content \o <<NL, NL, MlError, msg>>)
                   ELSE messages
  /\ UNCHANGED <<conversationId, isLoading, isLoadingChat, navs, currentStatus,
                 pendingOperation, abortControllerRef, isStreaming, localStatus,
                 nStreams, loads, cancels, requests, stopped>>

(***************************************************************************)
(* The read loops of sendAskQueryStream, sendAgentQueryStream and          *)
(* confirmAgentOperationStream, one chunk of one line per step.  A line    *)
(* that is not JSON makes JSON.parse throw inside the loop; the signal is  *)
(* not aborted, so the error is thrown on to the caller.                   *)
(***************************************************************************)
Primary(s) == streams[s].kind \in {"ask", "agent"}

Open(s) == streams[s].status = "open"

Deliver(s, e) ==
  /\ Open(s)
  /\ streams[s].kind \in {"ask", "agent", "confirm"}
  /\ evCount' = evCount + 1
  /\ lastAct' = Act("deliver", s, e)
  /\ IF e.type = "malformed"
       THEN IF Primary(s) THEN PrimaryThrow(s, "Unexpected token")
            ELSE ConfirmThrow(s, "Unexpected token")
       ELSE IF Primary(s) THEN PrimaryEvent(s, e) ELSE ConfirmEvent(s, e)

\* reader.read() answers done: the loop breaks and the call returns.
StreamEnd(s) ==
  /\ Open(s)
  /\ streams[s].kind \in {"ask", "agent", "confirm"}
  /\ streams' = [streams EXCEPT ![s].status = "ended"]
  /\ lastAct' = Act("end", s, NoEvent)
  /\ IF Primary(s) THEN Finally ELSE UNCHANGED <<isLoading, abortControllerRef>>
  /\ UNCHANGED <<messages, conversationId, isLoadingChat, navs, currentStatus,
                 pendingOperation, isStreaming, localStatus, nStreams, loads,
                 cancels, requests, stopped, evCount>>

\* fetch rejects, the response is not ok, or a read fails.
StreamFail(s) ==
  /\ Open(s)
  /\ lastAct' = Act("fail", s, NoEvent)
  /\ IF streams[s].kind = "confirm" THEN ConfirmThrow(s, "Failed to fetch")
     ELSE PrimaryThrow(s, "Failed to fetch")
  /\ UNCHANGED evCount

\* fetch resolves with a response that is not ok; response.json() is pending.
ErrorResponse(s) ==
  /\ Open(s)
  /\ Primary(s)
  /\ streams[s].seen = {}
  /\ streams' = [streams EXCEPT ![s].status = "refused"]
  /\ lastAct' = Act("refused", s, NoEvent)
  /\ UNCHANGED <<messages, conversationId, isLoading, isLoadingChat, navs,
                 currentStatus, pendingOperation, abortControllerRef, isStreaming,
                 localStatus, nStreams, loads, cancels, requests, stopped, evCount>>

\* response.json().catch(() => ({ detail: "Unknown error" })) settles and
\* new Error(error.detail || "Failed to send query") is thrown.  When the
\* signal was aborted meanwhile json() rejects and the detail is the
\* fallback of the catch.
ErrorDetail(s) ==
  /\ streams[s].status \in {"refused", "refused, aborted"}
  /\ lastAct' = Act("error detail", s, NoEvent)
  /\ PrimaryThrow(s, IF streams[s].status = "refused" THEN "Failed to send query"
                     ELSE "Unknown error")
  /\ UNCHANGED evCount

\* The non-streaming ask branch: the response of sendAskQuery.  A request
\* whose controller was cleared meanwhile is dropped.
ServerAnswerId == 900

AskResponse(s, cid) ==
  /\ Open(s)
  /\ streams[s].kind = "asksync"
  /\ streams' = [streams EXCEPT ![s].status = "ended"]
  /\ lastAct' = Act("response", s, NoEvent)
  /\ conversationId' =
       IF abortControllerRef # 0 /\ streams[s].conversationId = NoConversation
         THEN cid ELSE conversationId
  /\ messages' =
       IF abortControllerRef # 0
         THEN Append(messages, Msg(ServerAnswerId + s, "assistant", <<"p">>))
         ELSE messages
  /\ Finally
  /\ UNCHANGED <<isLoadingChat, navs, currentStatus, pendingOperation, isStreaming,
                 localStatus, nStreams, loads, cancels, requests, stopped, evCount>>

(***************************************************************************)
(* handleStopGeneration.  abort() rejects the pending fetch or read of the *)
(* stream that owns the controller; that rejection is handled before any   *)
(* other callback runs, so the stream ends in the same step: the catch of  *)
(* the reader (or the AbortError branch of handleSendMessage) adds nothing *)
(* and finally clears the loading state.  Without a controller the call   *)
(* does nothing.  ChatInput offers the Stop button only while isLoading.   *)
(* An abort while the body of a refused request is being read makes        *)
(* response.json() reject; ErrorDetail takes it from there.                *)
(***************************************************************************)
HandleStopGeneration ==
  /\ lastAct' = Act("stop", abortControllerRef, NoEvent)
  /\ IF abortControllerRef # 0
       THEN /\ streams' = [streams EXCEPT ![abortControllerRef].status =
                         IF @ = "refused" THEN "refused, aborted" ELSE "aborted"]
            /\ stopped' = stopped \cup {s \in StreamIds : Open(s) /\ streams[s].kind # "confirm"}
            /\ Finally
       ELSE UNCHANGED <<streams, stopped, isLoading, abortControllerRef>>
  /\ UNCHANGED <<messages, conversationId, isLoadingChat, navs, currentStatus,
                 pendingOperation, isStreaming, localStatus, nStreams, loads,
                 cancels, requests, evCount>>

(***************************************************************************)
(* loadConversation and resetChat.                                         *)
(***************************************************************************)
ChatIds == {7}

LoadedUserId == 101
LoadedAssistantId == 102

\* What the backend may hold for a conversation.
StoredOperation == [operation |-> "DELETE", sql |-> <<"p">>, message |-> <<"m">>]

StoredTranscripts ==
  { <<Msg(LoadedUserId, "user", <<"q">>), Msg(LoadedAssistantId, "assistant", <<"p">>)>>,
    <<Msg(LoadedUserId, "user", <<"q">>),
      Msg(LoadedAssistantId, "assistant", ConfirmationContent(StoredOperation))>> }

LoadConversation(chatId) ==
  /\ Len(loads) < MaxLoads
  /\ navs < MaxNavs
  /\ navs' = navs + 1
  /\ isLoadingChat' = TRUE
  /\ messages' = <<>>
  /\ loads' = Append(loads, chatId)
  /\ lastAct' = Act("load", 0, NoEvent)
  /\ UNCHANGED <<conversationId, isLoading, currentStatus, pendingOperation,
                 abortControllerRef, isStreaming, localStatus, streams, nStreams,
                 cancels, requests, stopped, evCount>>

LoadConversationDone(ok, transcript) ==
  /\ loads # <<>>
  /\ loads' = Tail(loads)
  /\ isLoadingChat' = FALSE
  /\ messages' = IF ok THEN transcript ELSE messages
  /\ conversationId' = IF ok THEN Head(loads) ELSE conversationId
  /\ lastAct' = Act(IF ok THEN "loaded" ELSE "load failed", 0, NoEvent)
  /\ UNCHANGED <<isLoading, currentStatus, pendingOperation, abortControllerRef,
                 isStreaming, localStatus, streams, nStreams, cancels, navs,
                 requests, stopped, evCount>>

ResetChat ==
  /\ navs < MaxNavs
  /\ navs' = navs + 1
  /\ messages' = <<>>
  /\ conversationId' = NoConversation
  /\ lastAct' = Act("reset", 0, NoEvent)
  /\ UNCHANGED <<isLoading, isLoadingChat, currentStatus, pendingOperation,
                 abortControllerRef, isStreaming, localStatus, streams, nStreams,
                 loads, cancels, requests, stopped, evCount>>

(***************************************************************************)
(* What the backend sends.                                                 *)
(***************************************************************************)
Texts == {<<"p">>, <<"@">>}

RowsResult == [success |-> TRUE, row_count |-> 1, data |-> "rows"]
MutationResult == [success |-> TRUE, row_count |-> 2, data |-> "none"]
EmptyDataResult == [success |-> TRUE, row_count |-> 0, data |-> "empty"]
FailedResult == [success |-> FALSE, row_count |-> 0, data |-> "none"]
SqlResults == {RowsResult, MutationResult, EmptyDataResult, FailedResult}

DeleteOperation == [operation |-> "DELETE", sql |-> <<"p">>, message |-> <<"m">>]
InsertOperation == [operation |-> "INSERT", sql |-> <<"q">>, message |-> <<"m">>]
Operations == {DeleteOperation, InsertOperation}

\* A confirmation_required whose content.message is the empty string.
BareOperation == [operation |-> "UPDATE", sql |-> <<"p">>, message |-> <<>>]

ResultEvent(r) == Event("sql_result", <<>>, r, NoPayloadOp, 0)
ConfirmationEvent(o) == Event("confirmation_required", <<>>, NoResult, o, 0)
DoneEvent(cid) == Event("done", <<>>, NoResult, NoPayloadOp, cid)

TextTypes ==
  {"ai_response", "sql_query", "step_indicator", "brief_reasoning",
   "final_answer_chunk", "final_answer_complete", "final_answer", "analyzing",
   "checking_graph", "loading"}

\* Every event type a callback has a branch for, an unknown type, and a line
\* that is not JSON.
AllEvents ==
  {TextEvent(t, x) : t \in TextTypes, x \in Texts}
    \cup {TextEvent("chart_config", <<"{chart}">>), TextEvent("graph_decision", <<>>),
          TextEvent("cancelled", <<>>), TextEvent("unknown", <<>>),
          TextEvent("malformed", <<>>)}
    \cup {ResultEvent(r) : r \in SqlResults}
    \cup {ConfirmationEvent(o) : o \in Operations \cup {BareOperation}}
    \cup {DoneEvent(c) : c \in ChatIds}

\* The events of the interleaving specification.
SomeEvents ==
  {TextEvent("ai_response", <<"p">>), TextEvent("malformed", <<>>),
   ConfirmationEvent(DeleteOperation)}
    \cup {DoneEvent(c) : c \in ChatIds}

(***************************************************************************)
(* Spec: every operation, interleaved, on up to MaxStreams calls and       *)
(* MaxEvents events.                                                       *)
(***************************************************************************)
Sends == {<<"ask", "none">>, <<"agent", "table">>}

Next ==
  \/ \E k \in Sends : HandleSendMessage(k[1], k[2]) /\ UNCHANGED decoderVars
  \/ \E s \in StreamIds, e \in SomeEvents :
       evCount < MaxEvents /\ Deliver(s, e) /\ UNCHANGED decoderVars
  \/ \E s \in StreamIds : StreamEnd(s) /\ UNCHANGED decoderVars
  \/ \E s \in StreamIds : StreamFail(s) /\ UNCHANGED decoderVars
  \/ \E s \in StreamIds, c \in ChatIds : AskResponse(s, c) /\ UNCHANGED decoderVars
  \/ isLoading /\ HandleStopGeneration /\ UNCHANGED decoderVars
  \/ \E o \in Operations : OnConfirmCancel(o) /\ UNCHANGED decoderVars
  \/ \E ok \in BOOLEAN : CancelResponse(ok) /\ UNCHANGED decoderVars
  \/ \E o \in Operations : OnConfirmExecute(o) /\ UNCHANGED decoderVars
  \/ \E c \in ChatIds : LoadConversation(c) /\ UNCHANGED decoderVars
  \/ \E ok \in BOOLEAN, t \in StoredTranscripts :
       LoadConversationDone(ok, t) /\ UNCHANGED decoderVars
  \/ ResetChat /\ UNCHANGED decoderVars

Spec == Init /\ [][Next]_vars

(***************************************************************************)
(* SpecReducer: one ask or agent call and every event the callback knows,  *)
(* up to MaxReducerEvents events.                                          *)
(***************************************************************************)
ReducerSends ==
  {<<"ask", "table">>, <<"ask", "general">>, <<"agent", "table">>, <<"agent", "general">>}

ReducerNext ==
  \/ \E k \in ReducerSends :
       nStreams = 0 /\ HandleSendMessage(k[1], k[2]) /\ UNCHANGED decoderVars
  \/ \E e \in AllEvents :
       evCount < MaxReducerEvents /\ Deliver(1, e) /\ UNCHANGED decoderVars
  \/ StreamEnd(1) /\ UNCHANGED decoderVars

SpecReducer == Init /\ [][ReducerNext]_vars

(***************************************************************************)
(* SpecRound: one confirmation round.  An agent call reaches               *)
(* confirmation_required, after which its stream only reports loading and  *)
(* done; the user presses Execute or Cancel; the confirm-execute stream    *)
(* reports the outcome.                                                    *)
(***************************************************************************)
HasConfirmation(s) == \E e \in streams[s].seen : e.type = "confirmation_required"

RoundPrimaryEvents ==
  {TextEvent("ai_response", <<"p">>), TextEvent("sql_query", <<"p">>),
   TextEvent("loading", <<"p">>)}
    \cup {ConfirmationEvent(o) : o \in Operations}
    \cup {DoneEvent(c) : c \in ChatIds}

RoundConfirmEvents ==
  {TextEvent("brief_reasoning", <<"p">>), TextEvent("final_answer_chunk", <<"p">>),
   TextEvent("final_answer_complete", <<"p">>), TextEvent("sql_query", <<"q">>),
   TextEvent("chart_config", <<"{chart}">>), TextEvent("loading", <<"p">>),
   TextEvent("unknown", <<>>)}
    \cup {ResultEvent(r) : r \in SqlResults}
    \cup {DoneEvent(c) : c \in ChatIds}

RoundNext ==
  \/ nStreams = 0 /\ HandleSendMessage("agent", "table") /\ UNCHANGED decoderVars
  \/ \E s \in StreamIds, e \in RoundPrimaryEvents :
       /\ Primary(s)
       /\ evCount < MaxRoundEvents
       /\ HasConfirmation(s) => e.type \in {"loading", "done"}
       /\ Deliver(s, e)
       /\ UNCHANGED decoderVars
  \/ \E s \in StreamIds, e \in RoundConfirmEvents :
       /\ streams[s].kind = "confirm"
       /\ evCount < MaxRoundEvents
       /\ Deliver(s, e)
       /\ UNCHANGED decoderVars
  \/ \E s \in StreamIds : StreamEnd(s) /\ UNCHANGED decoderVars
  \/ \E o \in Operations : OnConfirmExecute(o) /\ UNCHANGED decoderVars
  \/ \E o \in Operations : OnConfirmCancel(o) /\ UNCHANGED decoderVars
  \/ \E ok \in BOOLEAN : CancelResponse(ok) /\ UNCHANGED decoderVars

SpecRound == Init /\ [][RoundNext]_vars

(***************************************************************************)
(* The read loop of the three stream readers on its own: the text of a     *)
(* response, cut into chunks by the network, and what reaches onChunk.     *)
(* A line is the two tokens of "data: " followed by the tokens of its      *)
(* payload; the JSON of an event is "{", the event's type, "}".            *)
(***************************************************************************)
DataPrefix == <<"data", ": ">>

WireTypes == {"loading", "done"}

ValidLine(t) == DataPrefix \o <<"{", t, "}">>

MalformedLine == DataPrefix \o <<"{", "oops">>

WireLines == {ValidLine(t) : t \in WireTypes} \cup {MalformedLine}

\* JSON.parse(line.slice(6)) succeeds
Parses(line) ==
  /\ Len(line) = Len(DataPrefix) + 3
  /\ line[Len(DataPrefix) + 1] = "{"
  /\ line[Len(DataPrefix) + 2] \in WireTypes
  /\ line[Len(DataPrefix) + 3] = "}"

\* chunk.split("\n")
RECURSIVE SplitLines(_)
SplitLines(chunk) ==
  IF \A i \in 1..Len(chunk) : chunk[i] # NL THEN <<chunk>>
  ELSE LET i == CHOOSE k \in 1..Len(chunk) :
                  chunk[k] = NL /\ \A j \in 1..(k - 1) : chunk[j] # NL
       IN <<SubSeq(chunk, 1, i - 1)>> \o SplitLines(SubSeq(chunk, i + 1, Len(chunk)))

\* for (const line of lines) if (line.startsWith("data: ")) onChunk(JSON.parse(...))
RECURSIVE ProcessLines(_, _)
ProcessLines(lines, out) ==
  IF lines = <<>> THEN [delivered |-> out, thrown |-> FALSE]
  ELSE LET line == Head(lines)
       IN IF ~StartsWith(line, DataPrefix) THEN ProcessLines(Tail(lines), out)
          ELSE IF Parses(line)
                 THEN ProcessLines(Tail(lines), Append(out, line[Len(DataPrefix) + 1 + 1]))
                 ELSE [delivered |-> out, thrown |-> TRUE]

RECURSIVE Flatten(_)
Flatten(chunks) == IF chunks = <<>> THEN <<>> ELSE Head(chunks) \o Flatten(Tail(chunks))

\* The texts a response may carry: up to MaxLines lines, each ended by a
\* newline.
WireTexts ==
  UNION {{Flatten([i \in 1..n |-> ls[i] \o <<NL>>]) : ls \in [1..n -> WireLines]} :
           n \in 1..MaxLines}

\* The places where the network may cut a text: at most MaxChunks chunks.
CutSets(text) ==
  {c \in SUBSET (1..(Len(text) - 1)) : Cardinality(c) < MaxChunks}

RECURSIVE ChunksAt(_, _)
ChunksAt(text, cuts) ==
  IF cuts = {} THEN <<text>>
  ELSE LET c == CHOOSE x \in cuts : \A y \in cuts : x <= y
       IN <<SubSeq(text, 1, c)>>
            \o ChunksAt(SubSeq(text, c + 1, Len(text)), {y - c : y \in cuts \ {c}})

Chunkings == UNION {{ChunksAt(t, c) : c \in CutSets(t)} : t \in WireTexts}

ReaderKinds == {"ask", "agent", "confirm"}

DecoderInit ==
  /\ reader \in {[kind |-> k, state |-> "reading", chunks |-> ch] :
                   k \in ReaderKinds, ch \in Chunkings}
  /\ wire = reader.chunks
  /\ delivered = <<>>

\* const { done, value } = await reader.read() with done false: the chunk is
\* decoded, split and every line handled before the next read.
ReadChunk ==
  /\ reader.state = "reading"
  /\ wire # <<>>
  /\ LET res == ProcessLines(SplitLines(Head(wire)), delivered)
     IN /\ delivered' = res.delivered
        /\ reader' = [reader EXCEPT !.state = IF res.thrown THEN "thrown" ELSE @]
  /\ wire' = Tail(wire)

\* if (done) break
ReadDone ==
  /\ reader.state = "reading"
  /\ wire = <<>>
  /\ reader' = [reader EXCEPT !.state = "done"]
  /\ UNCHANGED <<wire, delivered>>

DecodeNext ==
  \/ ReadChunk /\ UNCHANGED protoVars
  \/ ReadDone /\ UNCHANGED protoVars

DecodeInit == ProtoInit /\ DecoderInit

SpecDecode == DecodeInit /\ [][DecodeNext]_vars

(***************************************************************************)
(* Properties.                                                             *)
(***************************************************************************)
\* Index of the assistant message of call s in a transcript, 0 when absent.
ActiveIndex(msgs, s) ==
  LET hits == {i \in 1..Len(msgs) : msgs[i].id = StreamingMessageId(s)}
  IN IF hits = {} THEN 0 ELSE CHOOSE i \in hits : \A j \in hits : j <= i

ContentSize(msgs, s) ==
  IF ActiveIndex(msgs, s) = 0 THEN 0 ELSE Size(msgs[ActiveIndex(msgs, s)].content)

\* The step delivers an event to stream s.
Delivers(s) ==
  evCount' = evCount + 1 /\ lastAct'.name = "deliver" /\ lastAct'.stream = s

\* C1 (Spec): once handleStopGeneration has run while a primary stream was in
\* flight, no later event of that stream changes the transcript.
CancellationFreeze ==
  [][\A s \in stopped : Delivers(s) => messages' = messages]_vars

\* C2 (SpecRound): when the agent stream has applied confirmation_required(o),
\* the user has pressed Execute and the confirm-execute stream has delivered a
\* successful sql_result and done and nothing else, the last assistant message
\* holds the description of o and the block of the result, holds no
\* confirmation tag, and pendingOperation is null.
ExecutedRound(c, o, r) ==
  /\ streams[c].kind = "confirm"
  /\ \E p \in StreamIds : Primary(p) /\ ConfirmationEvent(o) \in streams[p].seen
  /\ [endpoint |-> "agent/confirm", query |-> "", op |-> o] \in requests
  /\ r.success
  /\ streams[c].seen = {ResultEvent(r)} \cup {DoneEvent(i) : i \in ChatIds}

ResultShown(c, o, r) ==
  IF IsConfirmationResult(o.operation, r) THEN Includes(c, ConfirmResultText(o.operation, r))
  ELSE Includes(c, ConfirmQueryResult(r))

RejectionOutcome ==
  lastAct.name \in {"cancelled", "cancel failed"} =>
    /\ LastIsAssistant(messages)
    /\ ~HasDirective(Last(messages).content)
    /\ ~Includes(Last(messages).content, <<MhWarning>>)
    /\ pendingOperation = NoOperation
    /\ \A q \in requests : q.endpoint # "agent/confirm"

\* The well-formed events of a text, in order.
RECURSIVE WellFormed(_)
WellFormed(lines) ==
  IF lines = <<>> THEN <<>>
  ELSE IF StartsWith(Head(lines), DataPrefix) /\ Parses(Head(lines))
    THEN <<Head(lines)[Len(DataPrefix) + 2]>> \o WellFormed(Tail(lines))
    ELSE WellFormed(Tail(lines))

LineAligned(chunks) == \A i \in 1..Len(chunks) : Last(chunks[i]) = NL

\* C4 (SpecDecode): when every chunk ends at a line end, a line that is not
\* JSON does not make the reader throw, and at the end of the response every
\* well-formed line has been delivered, in order.
MalformedLineSkipped ==
  LineAligned(reader.chunks) =>
    /\ reader.state # "thrown"
    /\ reader.state = "done" =>
         delivered = WellFormed(SplitLines(Flatten(reader.chunks)))

\* C5 (SpecDecode): for a text of well-formed lines, however it is cut into
\* chunks, the reader ends without throwing and has delivered the events of
\* the uncut text.
ChunkingIndependence ==
  LET lines == SplitLines(Flatten(reader.chunks))
  IN (\A i \in 1..Len(lines) : lines[i] = <<>> \/ lines[i] \in WireLines \ {MalformedLine}) =>
       /\ reader.state # "thrown"
       /\ reader.state = "done" => delivered = WellFormed(lines)

\* C6 (SpecReducer): as long as the stream has delivered no
\* final_answer_complete, an event never makes the content of the stream's
\* assistant message shorter.
MonotonicGrowth ==
  [][\A s \in StreamIds :
       (Delivers(s) /\ \A e \in streams'[s].seen : e.type # "final_answer_complete")
         => ContentSize(messages', s) >= ContentSize(messages, s)]_vars

\* What buildContent puts after the accumulated buffer.
AnswerSuffix(st) ==
  SubSeq(BuildContent(st.kind, st.accumulatedContent, st.finalAnswer, st.general),
         Len(st.accumulatedContent) + 1,
         Len(BuildContent(st.kind, st.accumulatedContent, st.finalAnswer, st.general)))

WithoutSuffix(c, suffix) == SubSeq(c, 1, Len(c) - Len(suffix))

\* C7 (SpecReducer): final_answer_complete changes only the final-answer
\* suffix: before and after it the streaming message ends with the rendering
\* of the final answer, and what precedes that suffix is the same.
SingleRewrite ==
  [][\A s \in StreamIds :
       (/\ Delivers(s)
        /\ lastAct'.ev.type = "final_answer_complete"
        /\ LastIsStreaming(messages, streams[s].streamingMessageId))
         => /\ LastIsStreaming(messages', streams[s].streamingMessageId)
            /\ EndsWith(Last(messages).content, AnswerSuffix(streams[s]))
            /\ EndsWith(Last(messages').content, AnswerSuffix(streams'[s]))
            /\ WithoutSuffix(Last(messages).content, AnswerSuffix(streams[s]))
                 = WithoutSuffix(Last(messages').content, AnswerSuffix(streams'[s]))]_vars

\* C8 (SpecReducer): a sql_query, chart_config or final_answer_complete that
\* directly repeats the event delivered before it leaves the transcript as
\* it is.
Idempotence ==
  [][(/\ evCount' = evCount + 1
      /\ lastAct.name = "deliver"
      /\ lastAct' = lastAct
      /\ lastAct.ev.type \in {"sql_query", "chart_config", "final_answer_complete"})
       => messages' = messages]_vars

\* The step is a press of Cancel or of Execute.
CancelStep == cancels' = cancels + 1

ExecuteStep == nStreams' = nStreams + 1 /\ streams'[nStreams'].kind = "confirm"

PendingOnlyInWindow ==
  lastAct.name \in {"stop", "send", "reset", "load"} => pendingOperation = NoOperation

(***************************************************************************)
(* SpecStop: one agent call and its confirmation round, with               *)
(* handleStopGeneration called at any moment, whether or not a stream is   *)
(* running.                                                                *)
(***************************************************************************)
StopPrimaryEvents ==
  {TextEvent("ai_response", <<"p">>), TextEvent("sql_query", <<"p">>),
   TextEvent("loading", <<"p">>), TextEvent("unknown", <<>>),
   ConfirmationEvent(DeleteOperation)}
    \cup {DoneEvent(c) : c \in ChatIds}

StopConfirmEvents ==
  {TextEvent("brief_reasoning", <<"p">>), TextEvent("loading", <<"p">>),
   TextEvent("unknown", <<>>), ResultEvent(MutationResult)}
    \cup {DoneEvent(c) : c \in ChatIds}

StopNext ==
  \/ nStreams = 0 /\ HandleSendMessage("agent", "table") /\ UNCHANGED decoderVars
  \/ \E s \in StreamIds, e \in StopPrimaryEvents :
       Primary(s) /\ evCount < MaxStopEvents /\ Deliver(s, e) /\ UNCHANGED decoderVars
  \/ \E s \in StreamIds, e \in StopConfirmEvents :
       /\ streams[s].kind = "confirm"
       /\ evCount < MaxStopEvents
       /\ Deliver(s, e)
       /\ UNCHANGED decoderVars
  \/ \E s \in StreamIds : StreamEnd(s) /\ UNCHANGED decoderVars
  \/ \E o \in Operations : OnConfirmExecute(o) /\ UNCHANGED decoderVars
  \/ HandleStopGeneration /\ UNCHANGED decoderVars
  \/ \E s \in StreamIds : ErrorResponse(s) /\ UNCHANGED decoderVars
  \/ \E s \in StreamIds : ErrorDetail(s) /\ UNCHANGED decoderVars

SpecStop == Init /\ [][StopNext]_vars

\* C11 (Spec): at most one ask, agent or confirm-execute stream is open at a
\* time.
OpenStreams == {s \in StreamIds : Open(s) /\ streams[s].kind \in {"ask", "agent", "confirm"}}

OneStreamAtATime == Cardinality(OpenStreams) <= 1

\* The step is a call of handleStopGeneration.
StopCall == lastAct'.name = "stop"

\* C12 (SpecStop): a call of handleStopGeneration while a confirm-execute
\* stream is open ends that stream: it is no longer open after the call.
StopCancelsConfirmStream ==
  [][StopCall => \A s \in StreamIds : streams[s].kind = "confirm" => ~Open(s)']_vars

\* C13 (SpecStop): a call of handleStopGeneration while no stream is open and
\* an operation is pending is not a silent no-op: it clears the pending
\* operation or shows in the transcript or the status.
StopWhileAwaitingNotSilent ==
  [][(StopCall /\ OpenStreams = {} /\ pendingOperation # NoOperation)
       => \/ pendingOperation' = NoOperation
          \/ messages' # messages
          \/ currentStatus' # currentStatus]_vars

(***************************************************************************)
(* SpecResume: a stored conversation is opened, the operation its last     *)
(* message asks about is approved, and the user sends a new message while  *)
(* the confirm-execute stream runs.                                        *)
(***************************************************************************)
\* The id the backend gives to a conversation it creates for a request that
\* carried none.
NewChatId == 8

ResumePrimaryEvents ==
  {TextEvent("ai_response", <<"p">>), TextEvent("final_answer_chunk", <<"p">>),
   DoneEvent(NewChatId)}

ResumeConfirmEvents ==
  {TextEvent("brief_reasoning", <<"p">>), TextEvent("final_answer_chunk", <<"p">>),
   ResultEvent(MutationResult)}
    \cup {DoneEvent(c) : c \in ChatIds}

ResumeNext ==
  \/ \E chatId \in ChatIds : LoadConversation(chatId) /\ UNCHANGED decoderVars
  \/ \E t \in StoredTranscripts : LoadConversationDone(TRUE, t) /\ UNCHANGED decoderVars
  \/ \E o \in Operations : OnConfirmExecute(o) /\ UNCHANGED decoderVars
  \/ HandleSendMessage("agent", "table") /\ UNCHANGED decoderVars
  \/ \E s \in StreamIds, e \in ResumePrimaryEvents :
       Primary(s) /\ evCount < MaxResumeEvents /\ Deliver(s, e) /\ UNCHANGED decoderVars
  \/ \E s \in StreamIds, e \in ResumeConfirmEvents :
       /\ streams[s].kind = "confirm"
       /\ evCount < MaxResumeEvents
       /\ Deliver(s, e)
       /\ UNCHANGED decoderVars
  \/ \E s \in StreamIds : StreamEnd(s) /\ UNCHANGED decoderVars

SpecResume == Init /\ [][ResumeNext]_vars

\* The ids of the assistant messages created by calls made after stream s
\* was opened.
LaterMessageIds(s) == {StreamingMessageId(t) : t \in {u \in StreamIds : u > s}}

\* C14 (SpecResume): an event of a confirm-execute stream changes no message
\* other than the one that carried the directive; in particular it changes
\* no assistant message created after the stream was opened, and it leaves
\* the number of messages as it is.
ConfirmEventsOnDirectiveMessage ==
  [][\A s \in StreamIds :
       (Delivers(s) /\ streams[s].kind = "confirm")
         => /\ Len(messages') = Len(messages)
            /\ \A j \in 1..Len(messages) :
                 messages'[j] # messages[j] => messages[j].id \notin LaterMessageIds(s)]_vars

\* The step is the failure of stream s: fetch rejected, the response was not
\* ok, or a read failed.
Fails(s) == lastAct'.name = "fail" /\ lastAct'.stream = s

\* C15 (Spec): when a primary or confirm-execute stream fails, the error is
\* put on the transcript, isLoading and isStreaming are false and the status
\* strings are empty afterwards, and no request is sent again.
TransportErrorSurfaced ==
  [][\A s \in StreamIds :
       Fails(s) => /\ messages' # messages
                   /\ ~isLoading'
                   /\ ~isStreaming'
                   /\ currentStatus' = <<>>
                   /\ localStatus' = <<>>
                   /\ requests' = requests
                   /\ nStreams' = nStreams]_vars

\* The controller of stream s was aborted by handleStopGeneration.
Aborted(s) == streams[s].status \in {"aborted", "refused, aborted"}

\* C16 (SpecStop): stopping a stream is not an error: the call of
\* handleStopGeneration leaves the transcript as it is, and no later step of
\* the stream whose controller it aborted changes the transcript.
UserCancellationNoError ==
  [][/\ StopCall => messages' = messages
     /\ \A s \in StreamIds :
          (Aborted(s) /\ lastAct'.stream = s /\ ~StopCall) => messages' = messages]_vars

\* C17 (SpecResume): a call of onConfirmAction while no operation is pending
\* sends no request and opens no stream; it shows a failure message and
\* leaves isStreaming false.
ResolveWithoutPendingRefused ==
  [][((ExecuteStep \/ CancelStep) /\ pendingOperation = NoOperation)
       => /\ requests' = requests
          /\ nStreams' = nStreams
          /\ ~isStreaming'
          /\ Len(messages') = Len(messages) + 1]_vars

\* C18 (SpecResume): a done event sets the conversation id to the one it
\* carries exactly when the session has no id at the moment the event is
\* applied; an id that is known then is kept.
DoneAdoptsOnlyWhenUnknown ==
  [][\A s \in StreamIds :
       (Delivers(s) /\ lastAct'.ev.type = "done")
         => conversationId' = IF conversationId = NoConversation
                                THEN lastAct'.ev.conversation_id
                                ELSE conversationId]_vars

\* C19 (SpecRound): a final_answer_chunk of a stream that has delivered no
\* final_answer_complete is appended to the final answer.  In the primary
\* stream finalAnswer grows by the chunk and the streaming message is the
\* accumulated buffer followed by the wrapped answer, ending with it; in a
\* confirm-execute stream the message keeps what it had and grows by the
\* chunk at its end, also when the chunk equals the current tail.
FinalAnswerConcatenated ==
  [][\A s \in StreamIds :
       (/\ Delivers(s)
        /\ lastAct'.ev.type = "final_answer_chunk"
        /\ \A e \in streams'[s].seen : e.type # "final_answer_complete")
         => IF Primary(s)
              THEN /\ streams'[s].finalAnswer = streams[s].finalAnswer \o lastAct'.ev.text
                   /\ LastIsStreaming(messages', streams[s].streamingMessageId)
                        => /\ Last(messages').content =
                                BuildContent(streams'[s].kind, streams'[s].accumulatedContent,
                                             streams'[s].finalAnswer, streams'[s].general)
                           /\ EndsWith(Last(messages').content, streams'[s].finalAnswer)
              ELSE LastIsAssistant(messages)
                     => /\ StartsWith(Last(messages').content, Last(messages).content)
                        /\ EndsWith(Last(messages').content, lastAct'.ev.text)
                        /\ Len(Last(messages').content)
                             >= Len(Last(messages).content) + Len(lastAct'.ev.text)]_vars

\* The positions of the assistant messages of stream s in the transcript.
StreamingMessages(msgs, s) ==
  {j \in 1..Len(msgs) : msgs[j].id = streams[s].streamingMessageId}

\* C20 (SpecReducer): after ai_response the stream's assistant message holds
\* the payload of the event, and there is one such message however many
\* ai_response events the stream has delivered.
AiResponseOverwrites ==
  [][\A s \in StreamIds :
       (Delivers(s) /\ Primary(s) /\ lastAct'.ev.type = "ai_response")
         => /\ LastIsStreaming(messages', streams[s].streamingMessageId)
            /\ Includes(Last(messages').content, lastAct'.ev.text)
            /\ Cardinality(StreamingMessages(messages', s)) = 1]_vars
\* The payload has a data array, empty or not.
HasDataArray(r) == r.data # "none"

\* C21 (SpecReducer): a successful sql_result is classified by the shape of
\* its payload alone, in the agent stream as in a confirm-execute stream: with
\* a data array it is shown as a row block, with a row count and no data as a
\* mutation result.
SqlResultByShape ==
  [][\A s \in StreamIds :
       (/\ Delivers(s)
        /\ lastAct'.ev.type = "sql_result"
        /\ lastAct'.ev.result.success)
         => LET r == lastAct'.ev.result
            IN CASE streams[s].kind = "agent" ->
                      streams'[s].accumulatedContent = streams[s].accumulatedContent
                        \o (IF HasDataArray(r) THEN RowsResultBlock(r)
                            ELSE MutationResultBlock(r))
                 [] streams[s].kind = "confirm" ->
                      LastIsAssistant(messages)
                        => Includes(Last(messages').content,
                                    IF HasDataArray(r) THEN ConfirmQueryResult(r)
                                    ELSE ConfirmResultText(streams[s].operation, r))
                 [] OTHER -> TRUE]_vars

\* C22 (SpecStop): a loading event and an event of a type no branch knows
\* leave the messages, pendingOperation and the conversation id as they are
\* and the stream open; loading changes only the status text of its stream's
\* side, an unknown type changes nothing.
ContentlessEventsFrame ==
  [][\A s \in StreamIds :
       (Delivers(s) /\ lastAct'.ev.type \in {"loading", "unknown"})
         => /\ messages' = messages
            /\ pendingOperation' = pendingOperation
            /\ conversationId' = conversationId
            /\ isLoading' = isLoading
            /\ isStreaming' = isStreaming
            /\ Open(s)'
            /\ IF lastAct'.ev.type = "unknown"
                 THEN currentStatus' = currentStatus /\ localStatus' = localStatus
                 ELSE IF Primary(s)
                   THEN currentStatus' = lastAct'.ev.text /\ localStatus' = localStatus
                   ELSE localStatus' = lastAct'.ev.text /\ currentStatus' = currentStatus]_vars

\* A loading event has reached a stream whose message already has content.
ContentlessEventsFrameReached ==
  /\ lastAct.name = "deliver"
  /\ lastAct.ev.type = "loading"
  /\ Primary(lastAct.stream)
  /\ currentStatus = lastAct.ev.text
  /\ LastIsStreaming(messages, streams[lastAct.stream].streamingMessageId)
  /\ Last(messages).content # <<>>

\* The state of the confirmation coordinator, read off the flags the two
\* components keep.
Coordinator ==
  IF isStreaming THEN "Executing"
  ELSE IF pendingOperation # NoOperation THEN "AwaitingConfirmation"
  ELSE "Idle"

DeliversType(t) ==
  evCount' = evCount + 1 /\ lastAct'.name = "deliver" /\ lastAct'.ev.type = t

\* C23 (SpecRound): the coordinator changes state only by the transitions
\* Idle to AwaitingConfirmation on confirmation_required, AwaitingConfirmation
\* to Idle on Cancel or to Executing on Execute, Executing to Idle on done and
\* Executing to AwaitingConfirmation on confirmation_required; a
\* confirmation_required leaves its operation in pendingOperation.
CoordinatorTransitions ==
  [][/\ Coordinator' # Coordinator =>
          \/ /\ Coordinator = "Idle" /\ Coordinator' = "AwaitingConfirmation"
             /\ DeliversType("confirmation_required")
          \/ /\ Coordinator = "AwaitingConfirmation" /\ Coordinator' = "Idle"
             /\ CancelStep
          \/ /\ Coordinator = "AwaitingConfirmation" /\ Coordinator' = "Executing"
             /\ ExecuteStep
          \/ /\ Coordinator = "Executing" /\ Coordinator' = "Idle"
             /\ DeliversType("done")
          \/ /\ Coordinator = "Executing" /\ Coordinator' = "AwaitingConfirmation"
             /\ DeliversType("confirmation_required")
     /\ DeliversType("confirmation_required") =>
          /\ Coordinator' = "AwaitingConfirmation"
          /\ pendingOperation' = CapturedOperation(lastAct'.ev.op)]_vars

\* The event types that carry content for the message.
ContentTypes ==
  {"sql_query", "sql_result", "step_indicator", "brief_reasoning", "chart_config",
   "final_answer_chunk"}

\* C24 (SpecReducer): after ai_response or a content-bearing event of a
\* primary stream, the last message is the stream's assistant message, created
\* if it was not there, and its content is what buildContent gives for the
\* buffers after the event.
MessageCreatedLazily ==
  [][\A s \in StreamIds :
       (/\ Delivers(s)
        /\ Primary(s)
        /\ lastAct'.ev.type \in ContentTypes \cup {"ai_response"})
         => /\ LastIsStreaming(messages', streams[s].streamingMessageId)
            /\ Last(messages').content =
                 BuildContent(streams'[s].kind, streams'[s].accumulatedContent,
                              streams'[s].finalAnswer, streams'[s].general)]_vars

\* C25 (Spec): after a confirmation_required event, of the primary
\* stream or of a confirm-execute stream, the last message is an assistant
\* message that holds the confirmation tag of the operation, with the
\* description of that operation (explanation and SQL) and the warning line
\* right before the tag.
DirectivePrecededByDescription ==
  [][\A s \in StreamIds :
       (/\ Delivers(s)
        /\ lastAct'.ev.type = "confirmation_required"
        /\ streams[s].kind \in {"agent", "confirm"})
       => /\ LastIsAssistant(messages')
          /\ Includes(Last(messages').content,
                      Description(lastAct'.ev.op) \o <<NL, NL, MhWarning, NL, NL>>
                        \o Directive(lastAct'.ev.op))]_vars

\* C26 (SpecReducer): after a confirmation_required of the agent stream, the
\* renderer finds a confirmation tag in the last message whose Execute button
\* passes the operation, sql and message of the event to onConfirmAction.
CapturedOperationRoundTrip ==
  [][\A s \in StreamIds :
       (/\ Delivers(s)
        /\ lastAct'.ev.type = "confirmation_required"
        /\ streams[s].kind = "agent")
         => /\ LastIsAssistant(messages')
            /\ lastAct'.ev.op \in Buttons(messages', Len(messages'))]_vars

\* C27 (SpecReducer): as long as pendingOperation is set, the last message is
\* an assistant message that holds a confirmation tag and the description of
\* the pending operation.
DirectiveKeptWhilePending ==
  pendingOperation # NoOperation
    => /\ LastIsAssistant(messages)
       /\ HasDirective(Last(messages).content)
       /\ Includes(Last(messages).content,
                   pendingOperation.explanation
                     \o <<NL, NL, SqlToExecute, NL, FenceSql, NL>>
                     \o pendingOperation.sql \o <<NL, Fence>>)

\* C28 (Spec): every primary stream in flight is the one whose controller
\* abortControllerRef holds, and isLoading is set while it runs.
ControllerOfRunningStream ==
  \A s \in StreamIds :
    (Primary(s) /\ Open(s)) => (abortControllerRef = s /\ isLoading)

\* The transcript no longer holds the user message that started stream s:
\* resetChat or loadConversation has replaced it since.
TranscriptReplaced(s) ==
  \A j \in 1..Len(messages) : messages[j].id # UserMessageId(s)

\* C29 (Spec): once the transcript has been replaced while a primary stream is
\* in flight, an event of that stream changes neither the messages nor the
\* conversation id.
StreamIsolation ==
  [][\A s \in StreamIds :
       (Delivers(s) /\ Primary(s) /\ TranscriptReplaced(s))
         => /\ messages' = messages
            /\ conversationId' = conversationId]_vars

\* The block the confirm-execute callback formats for an event.
ConfirmBlock(op, e) ==
  CASE e.type = "sql_query" -> ConfirmSqlQueryBlock(e.text)
    [] e.type = "brief_reasoning" -> ConfirmReasoningBlock(e.text)
    [] e.type = "chart_config" -> ConfirmChartBlock(e.text)
    [] e.type = "sql_result" ->
         IF IsConfirmationResult(op, e.result) THEN ConfirmResultText(op, e.result)
         ELSE ConfirmQueryResult(e.result)

\* C30 (SpecRound): a sql_query, brief_reasoning, chart_config or successful
\* sql_result that a confirm-execute stream delivers for the first time leaves
\* its formatted block in the last assistant message, whatever that message
\* held before.
FirstDeliveryShown ==
  [][\A s \in StreamIds :
       (/\ Delivers(s)
        /\ streams[s].kind = "confirm"
        /\ lastAct'.ev.type \in {"sql_query", "brief_reasoning", "chart_config", "sql_result"}
        /\ lastAct'.ev.type = "sql_result" => lastAct'.ev.result.success
        /\ lastAct'.ev \notin streams[s].seen
        /\ LastIsAssistant(messages))
         => Includes(Last(messages').content,
                     ConfirmBlock(streams[s].operation, lastAct'.ev))]_vars


=============================================================================
